---- MODULE Spec2Model ----
(***************************************************************************)
(* Model of Tareldar: Kepler elements to state vector (orbit.rs), the      *)
(* two-body equations of motion and the propagate driver (propagator.rs),  *)
(* the central-body table (bodies.rs) and the Mission request (mission.rs).*)
(*                                                                         *)
(* Numbers.  An f64 is modelled by an exact extended rational <<n, d>>:    *)
(* d > 0 is the rational n/d in lowest terms, <<1,0>> is +inf, <<-1,0>> is *)
(* -inf and <<0,0>> is NaN.  Rounding error is not modelled (signed zero   *)
(* neither), so an equality of the model is an equality up to rounding in  *)
(* the program.  Inputs are chosen so that every square root the code      *)
(* takes is the root of a perfect square (or of a negative number: NaN).   *)
(*                                                                         *)
(* Angles.  The code uses an angle only through cos, sin and the sum       *)
(* argument_of_periapsis + true_anomaly, so an angle in radians is         *)
(* modelled by its point <<cos, sin>> on the unit circle and the sum of    *)
(* two angles by the angle-addition formulas.                              *)
(*                                                                         *)
(* Units.  Gravitational parameters are expressed in units of              *)
(* 398600.4418E9 m^3/s^2 (bodies.rs:8), so that EARTH's mu is 1.           *)
(***************************************************************************)
EXTENDS Integers, Sequences, FiniteSets, TLC

----------------------------------------------------------------------------
(* f64 arithmetic on extended rationals *)

Abs(n) == IF n < 0 THEN -n ELSE n

Sign(n) == IF n < 0 THEN -1 ELSE IF n > 0 THEN 1 ELSE 0

RECURSIVE GCD(_, _)
GCD(m, n) == IF n = 0 THEN m ELSE GCD(n, m % n)

Norm(n, d) ==
  IF d = 0 THEN <<Sign(n), 0>>
  ELSE LET g == GCD(Abs(n), Abs(d))
       IN  <<Sign(d) * (n \div g), Abs(d) \div g>>

NaN == <<0, 0>>

Zero == <<0, 1>>

One == <<1, 1>>

Int2R(n) == <<n, 1>>

IsNaN(a) == a = NaN

IsFinite(a) == a[2] # 0

FNeg(a) == <<-a[1], a[2]>>

FMul(a, b) == Norm(a[1] * b[1], a[2] * b[2])

\* 1/0 is +inf (the sign of a zero is not modelled), 1/inf is 0, 1/NaN is NaN
FRecip(a) ==
  IF a[2] = 0 THEN (IF a[1] = 0 THEN NaN ELSE Zero)
  ELSE IF a[1] = 0 THEN <<1, 0>>
  ELSE <<Sign(a[1]) * a[2], Abs(a[1])>>

FDiv(a, b) == FMul(a, FRecip(b))

FAdd(a, b) ==
  IF IsNaN(a) \/ IsNaN(b) THEN NaN
  ELSE IF a[2] = 0 /\ b[2] = 0 THEN (IF a[1] = b[1] THEN a ELSE NaN)
  ELSE IF a[2] = 0 THEN a
  ELSE IF b[2] = 0 THEN b
  ELSE LET g == GCD(a[2], b[2])
       IN  Norm(a[1] * (b[2] \div g) + b[1] * (a[2] \div g), (a[2] \div g) * b[2])

FSub(a, b) == FAdd(a, FNeg(b))

\* a < b, a <= b; every comparison with NaN is false
FLt(a, b) ==
  /\ ~IsNaN(a) /\ ~IsNaN(b)
  /\ a # b
  /\ IF a[2] = 0 THEN a[1] < 0
     ELSE IF b[2] = 0 THEN b[1] > 0
     ELSE a[1] * b[2] < b[1] * a[2]

FLe(a, b) == ~IsNaN(a) /\ ~IsNaN(b) /\ (a = b \/ FLt(a, b))

FAbs(a) == <<Abs(a[1]), a[2]>>

\* the natural number whose square is n; defined on perfect squares only
ISqrt(n) == CHOOSE k \in 0..n : k * k = n

\* f64::sqrt: NaN on a negative argument, +inf on +inf
FSqrt(a) ==
  IF IsNaN(a) \/ a[1] < 0 THEN NaN
  ELSE IF a[2] = 0 THEN a
  ELSE <<ISqrt(a[1]), ISqrt(a[2])>>

\* f64::powi(2)
FSq(a) == FMul(a, a)

\* f64::powf(2.0) and f64::powf(3.0 / 2.0)
FPow2(a) == FMul(a, a)

FPow3Half(a) == LET s == FSqrt(a) IN FMul(s, FMul(s, s))

----------------------------------------------------------------------------
(* angles *)

Cos(t) == t[1]

Sin(t) == t[2]

\* the angle t1 + t2
AngleAdd(t1, t2) ==
  << FSub(FMul(Cos(t1), Cos(t2)), FMul(Sin(t1), Sin(t2))),
     FAdd(FMul(Sin(t1), Cos(t2)), FMul(Cos(t1), Sin(t2))) >>

\* 0, pi/2, pi, 3pi/2
Angle0 == <<One, Zero>>

Angle90 == <<Zero, One>>

Angle180 == <<FNeg(One), Zero>>

Angle270 == <<Zero, FNeg(One)>>

\* atan(4/3), about 53.13 degrees
AngleP == << <<3, 5>>, <<4, 5>> >>

----------------------------------------------------------------------------
(* orbit.rs: KeplerElements *)

KeplerElements(a, e, i, raan, argp, nu) ==
  [ semi_major_axis |-> a,
    eccentricity |-> e,
    inclination |-> i,
    longitude_of_ascending_node |-> raan,
    argument_of_periapsis |-> argp,
    true_anomaly |-> nu ]

\* <KeplerElements as Default>::default
KeplerElementsDefault ==
  KeplerElements(Int2R(1000), Zero, Angle0, Angle0, Angle0, Angle0)

\* KeplerElements::to_state_vector(&self, mu) -> (position, velocity), one
\* definition per let of the source.  Vector3 index k of the source is
\* index k+1 here.
semi_latus_rectum(self) ==
  FMul(self.semi_major_axis, FSub(One, FSq(self.eccentricity)))

\* r with the sign of the eccentricity term flipped
r_slip(self) ==
  FDiv(semi_latus_rectum(self),
       FSub(One, FMul(self.eccentricity, Cos(self.true_anomaly))))

r(self) ==
  FDiv(semi_latus_rectum(self),
       FAdd(One, FMul(self.eccentricity, Cos(self.true_anomaly))))

arg_of_lat(self) == AngleAdd(self.argument_of_periapsis, self.true_anomaly)

\* the draft of core.rs: sin of the node in both terms of y, and
\* cos(argument_of_periapsis) * sin(inclination) in z
position_draft(self) ==
  << FMul(r(self),
          FSub(FMul(Cos(self.longitude_of_ascending_node), Cos(arg_of_lat(self))),
               FMul(FMul(Sin(self.longitude_of_ascending_node), Sin(arg_of_lat(self))),
                    Cos(self.inclination)))),
     FMul(r(self),
          FAdd(FMul(Sin(self.longitude_of_ascending_node), Cos(arg_of_lat(self))),
               FMul(FMul(Sin(self.longitude_of_ascending_node), Sin(arg_of_lat(self))),
                    Cos(self.inclination)))),
     FMul(r(self), FMul(Cos(self.argument_of_periapsis), Sin(self.inclination))) >>

position(self) ==
  << FMul(r(self),
          FSub(FMul(Cos(arg_of_lat(self)), Cos(self.longitude_of_ascending_node)),
               FMul(FMul(Sin(arg_of_lat(self)), Cos(self.inclination)),
                    Sin(self.longitude_of_ascending_node)))),
     FMul(r(self),
          FAdd(FMul(Cos(arg_of_lat(self)), Sin(self.longitude_of_ascending_node)),
               FMul(FMul(Sin(arg_of_lat(self)), Cos(self.inclination)),
                    Cos(self.longitude_of_ascending_node)))),
     FMul(r(self), FMul(Sin(arg_of_lat(self)), Sin(self.inclination))) >>

h(self, mu) ==
  FSqrt(FMul(FMul(mu, self.semi_major_axis), FSub(One, FSq(self.eccentricity))))

\* ((position[k] * h * e) / (r * semi_latus_rectum)) * true_anomaly.sin()
radial_term(self, mu, pk) ==
  FMul(FDiv(FMul(FMul(pk, h(self, mu)), self.eccentricity),
            FMul(r(self), semi_latus_rectum(self))),
       Sin(self.true_anomaly))

\* the third component takes position[1], as the source does
velocity(self, mu) ==
  << FSub(radial_term(self, mu, position(self)[1]),
          FMul(FDiv(h(self, mu), r(self)),
               FAdd(FMul(Cos(self.longitude_of_ascending_node), Sin(arg_of_lat(self))),
                    FMul(FMul(Sin(self.longitude_of_ascending_node), Cos(arg_of_lat(self))),
                         Cos(self.inclination))))),
     FSub(radial_term(self, mu, position(self)[2]),
          FMul(FDiv(h(self, mu), r(self)),
               FSub(FMul(Sin(self.longitude_of_ascending_node), Sin(arg_of_lat(self))),
                    FMul(FMul(Cos(self.longitude_of_ascending_node), Cos(arg_of_lat(self))),
                         Cos(self.inclination))))),
     FAdd(radial_term(self, mu, position(self)[2]),
          FMul(FMul(FDiv(h(self, mu), r(self)), Sin(self.inclination)),
               Cos(arg_of_lat(self)))) >>

to_state_vector(self, mu) == <<position(self), velocity(self, mu)>>

Dot(u, v) == FAdd(FAdd(FMul(u[1], v[1]), FMul(u[2], v[2])), FMul(u[3], v[3]))

VecFinite(v) == \A k \in DOMAIN v : IsFinite(v[k])

----------------------------------------------------------------------------
(* inputs of the conversion *)

AxisValues == {Int2R(-1), Zero, One, Int2R(4)}

EccValues == {Zero, <<3, 5>>, One, <<5, 4>>}

MuValues == {Int2R(-1), Zero, One, Int2R(4)}

Angles == {Angle0, Angle90, Angle180, Angle270, AngleP}

ElementSets ==
  { KeplerElements(a, e, i, raan, argp, nu) :
      a \in AxisValues, e \in EccValues, i \in Angles,
      raan \in Angles, argp \in Angles, nu \in Angles }

----------------------------------------------------------------------------
(* enums: a value is <<enum name, discriminant>>; Ok(v) and Err(()) *)

Ok(v) == <<"Ok", v>>

Err == <<"Err", <<>>>>

\* propagator.rs: enum OdeSolver
RungeKutta4 == <<"OdeSolver", 0>>

DormandPrince5 == <<"OdeSolver", 1>>

DormandPrince853 == <<"OdeSolver", 2>>

OdeSolver == {RungeKutta4, DormandPrince5, DormandPrince853}

\* <OdeSolver as Display>::fmt, through to_string
OdeSolver_to_string(self) ==
  CASE self = RungeKutta4 -> "RungeKutta4"
    [] self = DormandPrince5 -> "DormandPrince5"
    [] self = DormandPrince853 -> "DormandPrince853"

\* from_str with the arm of DormandPrince853 yielding DormandPrince5
OdeSolver_from_str_slip(input) ==
  CASE input = "RungeKutta4" -> Ok(RungeKutta4)
    [] input = "DormandPrince5" -> Ok(DormandPrince5)
    [] input = "DormandPrince853" -> Ok(DormandPrince5)
    [] OTHER -> Err

\* <OdeSolver as FromStr>::from_str
OdeSolver_from_str(input) ==
  CASE input = "RungeKutta4" -> Ok(RungeKutta4)
    [] input = "DormandPrince5" -> Ok(DormandPrince5)
    [] input = "DormandPrince853" -> Ok(DormandPrince853)
    [] OTHER -> Err

\* orbit.rs: enum CoordinateSystem
EarthCenteredInertial == <<"CoordinateSystem", 0>>

EarthCenteredEarthFixed == <<"CoordinateSystem", 1>>

CoordinateSystem == {EarthCenteredInertial, EarthCenteredEarthFixed}

CoordinateSystem_to_string(self) ==
  CASE self = EarthCenteredInertial -> "EarthCenteredInertial"
    [] self = EarthCenteredEarthFixed -> "EarthCenteredEarthFixed"

CoordinateSystem_from_str(input) ==
  CASE input = "EarthCenteredInertial" -> Ok(EarthCenteredInertial)
    [] input = "EarthCenteredEarthFixed" -> Ok(EarthCenteredEarthFixed)
    [] OTHER -> Err

\* bodies.rs: enum CentralBody
EARTH == <<"CentralBody", 0>>

CentralBody == {EARTH}

CentralBody_to_string(self) ==
  CASE self = EARTH -> "EARTH"

CentralBody_from_str(input) ==
  CASE input = "EARTH" -> Ok(EARTH)
    [] OTHER -> Err

EnumNames == {"OdeSolver", "CoordinateSystem", "CentralBody"}

EnumValues == OdeSolver \cup CoordinateSystem \cup CentralBody

\* v.to_string() and T::from_str(input), dispatched on the type
to_string(v) ==
  CASE v[1] = "OdeSolver" -> OdeSolver_to_string(v)
    [] v[1] = "CoordinateSystem" -> CoordinateSystem_to_string(v)
    [] v[1] = "CentralBody" -> CentralBody_to_string(v)

from_str(T, input) ==
  CASE T = "OdeSolver" -> OdeSolver_from_str(input)
    [] T = "CoordinateSystem" -> CoordinateSystem_from_str(input)
    [] T = "CentralBody" -> CentralBody_from_str(input)

\* bodies.rs: get_body(body) -> Body { mu }
get_body(body) ==
  CASE body = EARTH -> [mu |-> One]

----------------------------------------------------------------------------
(* orbit.rs: Orbit; mission.rs: Mission *)

Orbit(ke, cb, cs, solver) ==
  [ kepler_elements |-> ke,
    central_body |-> cb,
    coordinate_system |-> cs,
    ode_solver |-> solver ]

\* <Orbit as Default>::default
OrbitDefault ==
  Orbit(KeplerElementsDefault, EARTH, EarthCenteredInertial, RungeKutta4)

Mission(orbit, epoch, duration) ==
  [orbit |-> orbit, epoch |-> epoch, duration |-> duration]

\* <Mission as Default>::default
MissionDefault == Mission(OrbitDefault, Zero, Zero)

----------------------------------------------------------------------------
(* propagator.rs: <Orbit as System<State>>::system *)

\* system with the minus sign of the acceleration left out
system_slip(self, _t, y) ==
  LET denominator == FPow3Half(FAdd(FAdd(FPow2(y[1]), FPow2(y[2])), FPow2(y[3])))
      body == get_body(self.central_body)
  IN  << y[4],
         y[5],
         y[6],
         FDiv(FMul(body.mu, y[1]), denominator),
         FDiv(FMul(body.mu, y[2]), denominator),
         FDiv(FMul(body.mu, y[3]), denominator) >>

\* system(&self, _t, y, dy): the value left in dy.  All six components are
\* assigned, so the result does not depend on what dy held before.
\* State index k of the source is index k+1 here.
system(self, _t, y) ==
  LET denominator == FPow3Half(FAdd(FAdd(FPow2(y[1]), FPow2(y[2])), FPow2(y[3])))
      body == get_body(self.central_body)
  IN  << y[4],
         y[5],
         y[6],
         FDiv(FMul(FNeg(body.mu), y[1]), denominator),
         FDiv(FMul(FNeg(body.mu), y[2]), denominator),
         FDiv(FMul(FNeg(body.mu), y[3]), denominator) >>

----------------------------------------------------------------------------
(* state *)

VARIABLES
  conv_pc, conv_elements, conv_mu, conv_out,   \* one to_state_vector call
  enum_val, enum_str, enum_res,                \* to_string / from_str calls
  dyn_orbit, dyn_t, dyn_y, dyn_dy, dyn_ret, dyn_calls,  \* calls of system
  pc, mission, body, state_vector, stepper,    \* propagate, per invocation
  sys_calls, result, buffers                   \* propagate, per invocation

convVars == <<conv_pc, conv_elements, conv_mu, conv_out>>

enumVars == <<enum_val, enum_str, enum_res>>

dynVars == <<dyn_orbit, dyn_t, dyn_y, dyn_dy, dyn_ret, dyn_calls>>

propVars ==
  <<pc, mission, body, state_vector, stepper, sys_calls, result, buffers>>

vars == <<convVars, enumVars, dynVars, propVars>>

ZeroVec3 == <<Zero, Zero, Zero>>

ZeroVec6 == <<Zero, Zero, Zero, Zero, Zero, Zero>>

NoValue == <<"None", 0>>

ConvIdle ==
  /\ conv_pc = "idle"
  /\ conv_elements = KeplerElementsDefault
  /\ conv_mu = One
  /\ conv_out = <<ZeroVec3, ZeroVec3>>

EnumIdle ==
  /\ enum_val = NoValue
  /\ enum_str = ""
  /\ enum_res = [T |-> "", input |-> "", out |-> Err]

DynIdle ==
  /\ dyn_orbit = OrbitDefault
  /\ dyn_t = Zero
  /\ dyn_y = ZeroVec6
  /\ dyn_dy = ZeroVec6
  /\ dyn_ret = "not called"
  /\ dyn_calls = 0

----------------------------------------------------------------------------
(* propagator.rs: propagate(mission), one invocation per element of Procs *)

NumProcs == 2

Procs == 1..NumProcs

\* one output buffer shared by every stepper
StepperBuf_shared(p) == <<"y_out", 1>>

\* the Vec behind stepper.y_out(), and the Vec that y_out.to_vec() allocates
StepperBuf(p) == <<"y_out", p>>

ResultBuf(p) == <<"to_vec", p>>

NoBuf == <<"none", 0>>

BufKeys == {StepperBuf(p) : p \in Procs} \cup {ResultBuf(p) : p \in Procs}

NoStepper ==
  [ f |-> OrbitDefault, x |-> Zero, x_end |-> Zero, dx |-> Zero,
    y0 |-> ZeroVec6, x0 |-> Zero, rtol |-> Zero, atol |-> Zero,
    y_out |-> NoBuf ]

\* State::new(position[0], position[1], position[2], velocity[0], ...)
StateNew(pos, vel) == pos \o vel

\* Dopri5::new(f, x, x_end, dx, y, rtol, atol), its output buffer being buf
Dopri5New(f, x, x_end, dx, y, rtol, atol, buf) ==
  [ f |-> f, x |-> x, x_end |-> x_end, dx |-> dx,
    y0 |-> y, x0 |-> x, rtol |-> rtol, atol |-> atol,
    y_out |-> buf ]

\* propagate with a relative tolerance chosen by the solver kind
PropagateStepper_bysolver(m, sv, buf) ==
  LET system_ == m.orbit
      rtol == IF m.orbit.ode_solver = RungeKutta4 THEN <<1, 1000>> ELSE <<1, 1000000>>
      atol == <<1, 100000000>>
  IN  Dopri5New(system_, m.epoch, m.duration, Int2R(10),
                StateNew(sv[1], sv[2]), rtol, atol, buf)

\* the stepper that propagate builds from its mission and state vector
PropagateStepper(m, sv, buf) ==
  LET system_ == m.orbit
      rtol == <<1, 1000000>>
      atol == <<1, 100000000>>
  IN  Dopri5New(system_, m.epoch, m.duration, Int2R(10),
                StateNew(sv[1], sv[2]), rtol, atol, buf)

\* The numerical solution at x of the system started in y0 at x0.  The crate
\* computes it; the model keeps it symbolic, the start excepted.
Solution(st, x) == IF x = st.x0 THEN st.y0 ELSE <<"solution", st.x0, st.y0, x>>

\* The next accepted point.  The crate's step-size control is a deterministic
\* function of the stepper; the model takes steps of dx, the last one cut at
\* x_end, in the direction of x_end.
NextX(st) ==
  IF FLt(st.x, st.x_end)
  THEN (IF FLt(FAdd(st.x, st.dx), st.x_end) THEN FAdd(st.x, st.dx) ELSE st.x_end)
  ELSE (IF FLt(st.x_end, FSub(st.x, st.dx)) THEN FSub(st.x, st.dx) ELSE st.x_end)

\* y_out.to_vec(): the buffer the returned Vec lives in
ToVecBuf(p) == ResultBuf(p)

PropIdle ==
  /\ pc = [p \in Procs |-> "idle"]
  /\ mission = [p \in Procs |-> MissionDefault]
  /\ body = [p \in Procs |-> [mu |-> Zero]]
  /\ state_vector = [p \in Procs |-> <<ZeroVec3, ZeroVec3>>]
  /\ stepper = [p \in Procs |-> NoStepper]
  /\ sys_calls = [p \in Procs |-> 0]
  /\ result = [p \in Procs |-> NoBuf]
  /\ buffers = [k \in BufKeys |-> <<>>]

\* a caller invokes propagate(m); the Mission is moved into the invocation
Call(p, m) ==
  /\ pc[p] = "idle"
  /\ mission' = [mission EXCEPT ![p] = m]
  /\ pc' = [pc EXCEPT ![p] = "get_body"]
  /\ UNCHANGED <<body, state_vector, stepper, sys_calls, result, buffers>>
  /\ UNCHANGED <<convVars, enumVars, dynVars>>

\* let body = get_body(&mission.orbit.central_body)
GetBody(p) ==
  /\ pc[p] = "get_body"
  /\ body' = [body EXCEPT ![p] = get_body(mission[p].orbit.central_body)]
  /\ pc' = [pc EXCEPT ![p] = "to_state_vector"]
  /\ UNCHANGED <<mission, state_vector, stepper, sys_calls, result, buffers>>
  /\ UNCHANGED <<convVars, enumVars, dynVars>>

\* let (position, velocity) = mission.orbit.kepler_elements.to_state_vector(body.mu)
ToStateVector(p) ==
  /\ pc[p] = "to_state_vector"
  /\ state_vector' = [state_vector EXCEPT
       ![p] = to_state_vector(mission[p].orbit.kepler_elements, body[p].mu)]
  /\ pc' = [pc EXCEPT ![p] = "new"]
  /\ UNCHANGED <<mission, body, stepper, sys_calls, result, buffers>>
  /\ UNCHANGED <<convVars, enumVars, dynVars>>

\* let mut stepper = Dopri5::new(system, mission.epoch, mission.duration, 10.0, ...)
NewStepper(p) ==
  /\ pc[p] = "new"
  /\ stepper' = [stepper EXCEPT
       ![p] = PropagateStepper(mission[p], state_vector[p], StepperBuf(p))]
  /\ buffers' = [buffers EXCEPT ![StepperBuf(p)] = <<>>]
  /\ pc' = [pc EXCEPT ![p] = "integrate"]
  /\ UNCHANGED <<mission, body, state_vector, sys_calls, result>>
  /\ UNCHANGED <<convVars, enumVars, dynVars>>

\* stepper.integrate() starts: the system is evaluated at the initial state,
\* which is the first point of the output
IntegrateBegin(p) ==
  /\ pc[p] = "integrate"
  /\ sys_calls' = [sys_calls EXCEPT ![p] = @ + 1]
  /\ buffers' = [buffers EXCEPT
       ![stepper[p].y_out] = Append(@, Solution(stepper[p], stepper[p].x))]
  /\ pc' = [pc EXCEPT ![p] = "stepping"]
  /\ UNCHANGED <<mission, body, state_vector, stepper, result>>
  /\ UNCHANGED <<convVars, enumVars, dynVars>>

\* a step can be accepted only while the state and its derivative are finite
CanStep(st) ==
  /\ VecFinite(st.y0)
  /\ VecFinite(system(st.f, st.x0, st.y0))

\* stepper.integrate() accepts a step and records the point reached
IntegrateStep(p) ==
  /\ pc[p] = "stepping"
  /\ stepper[p].x # stepper[p].x_end
  /\ CanStep(stepper[p])
  /\ LET x1 == NextX(stepper[p])
     IN  /\ stepper' = [stepper EXCEPT ![p].x = x1]
         /\ buffers' = [buffers EXCEPT
              ![stepper[p].y_out] = Append(@, Solution(stepper[p], x1))]
  /\ sys_calls' = [sys_calls EXCEPT ![p] = @ + 1]
  /\ UNCHANGED <<pc, mission, body, state_vector, result>>
  /\ UNCHANGED <<convVars, enumVars, dynVars>>

\* stepper.integrate() returns Ok at x_end, and expect() passes
IntegrateOk(p) ==
  /\ pc[p] = "stepping"
  /\ stepper[p].x = stepper[p].x_end
  /\ CanStep(stepper[p])
  /\ pc' = [pc EXCEPT ![p] = "y_out"]
  /\ UNCHANGED <<mission, body, state_vector, stepper, sys_calls, result, buffers>>
  /\ UNCHANGED <<convVars, enumVars, dynVars>>

\* stepper.integrate() returns Err, and
\* expect("ERROR: Unable to integrate provided parameters.") panics
IntegrateErr(p) ==
  /\ pc[p] = "stepping"
  /\ pc' = [pc EXCEPT ![p] = "panicked"]
  /\ UNCHANGED <<mission, body, state_vector, stepper, sys_calls, result, buffers>>
  /\ UNCHANGED <<convVars, enumVars, dynVars>>

\* let y_out = stepper.y_out(); y_out.to_vec()
YOutToVec(p) ==
  /\ pc[p] = "y_out"
  /\ buffers' = [buffers EXCEPT ![ToVecBuf(p)] = buffers[stepper[p].y_out]]
  /\ result' = [result EXCEPT ![p] = ToVecBuf(p)]
  /\ pc' = [pc EXCEPT ![p] = "returned"]
  /\ UNCHANGED <<mission, body, state_vector, stepper, sys_calls>>
  /\ UNCHANGED <<convVars, enumVars, dynVars>>

Propagate(p) ==
  \/ GetBody(p)
  \/ ToStateVector(p)
  \/ NewStepper(p)
  \/ IntegrateBegin(p)
  \/ IntegrateStep(p)
  \/ IntegrateOk(p)
  \/ IntegrateErr(p)
  \/ YOutToVec(p)

\* missions handed to propagate
PropElements ==
  { KeplerElements(One, Zero, Angle0, Angle0, Angle0, Angle0),
    KeplerElements(Int2R(4), <<3, 5>>, AngleP, Angle90, Angle0, Angle90),
    KeplerElements(One, <<3, 5>>, Angle90, AngleP, Angle270, Angle180),
    KeplerElements(One, One, Angle0, Angle0, Angle0, Angle0),
    KeplerElements(Int2R(-1), Zero, Angle0, Angle0, Angle0, Angle0),
    KeplerElements(Zero, Zero, Angle0, Angle0, Angle0, Angle0) }

Epochs == {Zero, Int2R(10)}

Durations == {Zero, Int2R(20), Int2R(25)}

Missions ==
  { Mission(Orbit(ke, EARTH, cs, s), epoch, duration) :
      ke \in PropElements, cs \in CoordinateSystem, s \in OdeSolver,
      epoch \in Epochs, duration \in Durations }

PropInit == PropIdle /\ ConvIdle /\ EnumIdle /\ DynIdle

\* Spec: one invocation of propagate, on any mission
Next ==
  \/ \E m \in Missions : Call(1, m)
  \/ Propagate(1)

Spec == PropInit /\ [][Next]_vars

\* SpecPar: NumProcs invocations running in parallel
ParMissions ==
  { Mission(Orbit(KeplerElements(One, Zero, Angle0, Angle0, Angle0, Angle0),
                  EARTH, EarthCenteredInertial, DormandPrince5), Zero, Int2R(20)),
    Mission(Orbit(KeplerElements(Int2R(4), <<3, 5>>, AngleP, Angle90, Angle0, Angle90),
                  EARTH, EarthCenteredInertial, RungeKutta4), Int2R(10), Int2R(25)),
    Mission(Orbit(KeplerElements(One, One, Angle0, Angle0, Angle0, Angle0),
                  EARTH, EarthCenteredEarthFixed, DormandPrince853), Zero, Int2R(20)) }

ParNext ==
  \/ \E p \in Procs, m \in ParMissions : Call(p, m)
  \/ \E p \in Procs : Propagate(p)

SpecPar == PropInit /\ [][ParNext]_vars

\* SpecSolver: parallel invocations on missions that differ in ode_solver
SolverMissions ==
  { Mission(Orbit(KeplerElements(Int2R(4), <<3, 5>>, AngleP, Angle90, Angle0, Angle90),
                  EARTH, EarthCenteredInertial, s), Zero, Int2R(10)) : s \in OdeSolver }
  \cup
  { Mission(Orbit(KeplerElements(One, Zero, Angle0, Angle0, Angle0, Angle0),
                  EARTH, EarthCenteredInertial, DormandPrince5), Int2R(10), Int2R(20)) }

SolverNext ==
  \/ \E p \in Procs, m \in SolverMissions : Call(p, m)
  \/ \E p \in Procs : Propagate(p)

SpecSolver == PropInit /\ [][SolverNext]_vars

----------------------------------------------------------------------------
(* SpecConv: one call of to_state_vector on every element set *)

ConvInit ==
  /\ conv_pc = "call"
  /\ conv_elements \in ElementSets
  /\ conv_mu \in MuValues
  /\ conv_out = <<ZeroVec3, ZeroVec3>>
  /\ EnumIdle /\ DynIdle /\ PropIdle

\* let (position, velocity) = kepler_elements.to_state_vector(mu)
ConvCall ==
  /\ conv_pc = "call"
  /\ conv_out' = to_state_vector(conv_elements, conv_mu)
  /\ conv_pc' = "returned"
  /\ UNCHANGED <<conv_elements, conv_mu, enumVars, dynVars, propVars>>

ConvNext == ConvCall

SpecConv == ConvInit /\ [][ConvNext]_vars

----------------------------------------------------------------------------
(* SpecEnum: to_string and from_str of the three enums *)

\* texts handed to from_str: the six names and near misses
Strings ==
  { "RungeKutta4", "DormandPrince5", "DormandPrince853",
    "EarthCenteredInertial", "EarthCenteredEarthFixed", "EARTH",
    "", "rungekutta4", "RungeKutta4 ", " RungeKutta4", "RungeKutta",
    "DormandPrince", "DormandPrince8", "DormandPrince58", "0",
    "EarthCentered", "earthcenteredinertial", "ECI", "ECEF",
    "Earth", "earth", "EARTH\n", "MOON" }

EnumInit == EnumIdle /\ ConvIdle /\ DynIdle /\ PropIdle

\* enum_str = v.to_string()
EnumToString(v) ==
  /\ enum_val' = v
  /\ enum_str' = to_string(v)
  /\ enum_res' = [T |-> "", input |-> "", out |-> Err]
  /\ UNCHANGED <<convVars, dynVars, propVars>>

\* enum_res = T::from_str(input), on the text last formatted or any other
EnumFromStr(T, input) ==
  /\ enum_res' = [T |-> T, input |-> input, out |-> from_str(T, input)]
  /\ UNCHANGED <<enum_val, enum_str, convVars, dynVars, propVars>>

EnumNext ==
  \/ \E v \in EnumValues : EnumToString(v)
  \/ \E T \in EnumNames, input \in Strings \cup {enum_str} : EnumFromStr(T, input)

SpecEnum == EnumInit /\ [][EnumNext]_vars

----------------------------------------------------------------------------
(* SpecDyn: calls of system on states of a grid *)

MaxEvals == 2

\* positions whose norm is rational, the origin among them
DynPositions ==
  { <<Int2R(x), Int2R(y), Int2R(z)>> : x \in -2..2, y \in -2..2, z \in -2..2 }

DynPositionsUsed ==
  { q \in DynPositions :
      \E k \in 0..3 : k * k = q[1][1] * q[1][1] + q[2][1] * q[2][1] + q[3][1] * q[3][1] }

DynVelocities ==
  { <<Int2R(x), Int2R(y), Int2R(z)>> : x \in {-1, 0, 3}, y \in {0, 2}, z \in {0, 1} }

DynTimes == {Zero, Int2R(10)}

DynInit ==
  /\ dyn_orbit \in {Orbit(KeplerElementsDefault, EARTH, cs, s) :
                      cs \in {EarthCenteredInertial}, s \in {RungeKutta4, DormandPrince5}}
  /\ dyn_t = Zero
  /\ dyn_y \in {q \o v : q \in DynPositionsUsed, v \in DynVelocities}
  /\ dyn_dy = ZeroVec6
  /\ dyn_ret = "not called"
  /\ dyn_calls = 0
  /\ ConvIdle /\ EnumIdle /\ PropIdle

\* self.system(t, &y, &mut dy); the function returns ()
DynSystem(t) ==
  /\ dyn_calls < MaxEvals
  /\ dyn_t' = t
  /\ dyn_dy' = system(dyn_orbit, t, dyn_y)
  /\ dyn_ret' = "()"
  /\ dyn_calls' = dyn_calls + 1
  /\ UNCHANGED <<dyn_orbit, dyn_y, convVars, enumVars, propVars>>

DynNext == \E t \in DynTimes : DynSystem(t)

SpecDyn == DynInit /\ [][DynNext]_vars

----------------------------------------------------------------------------
(* properties *)

Started(p) == pc[p] # "idle"

\* the stepper of invocation p has been constructed
Constructed(p) == pc[p] \in {"integrate", "stepping", "y_out", "returned", "panicked"}

\* mu <= 0, or semi_major_axis * (1 - eccentricity^2) <= 0
Degenerate(ke, mu) == FLe(mu, Zero) \/ FLe(semi_latus_rectum(ke), Zero)

\* mu > 0, a > 0, 0 <= e < 1
ValidElliptical(ke, mu) ==
  /\ FLt(Zero, mu)
  /\ FLt(Zero, ke.semi_major_axis)
  /\ FLe(Zero, ke.eccentricity)
  /\ FLt(ke.eccentricity, One)

RelTolInv == 10^6

\* |a - b| <= |b| / tolInv
WithinRel(a, b, tolInv) ==
  /\ IsFinite(a) /\ IsFinite(b)
  /\ LET diff == FAbs(FSub(a, b))
         q == FDiv(FAbs(b), diff)
     IN  diff = Zero \/ (q[2] # 0 /\ q[1] \div q[2] >= tolInv)

\* C1: propagate integrates from mission.epoch to mission.epoch +
\* mission.duration: the integrator is constructed with start time epoch and
\* end time epoch + duration, for every epoch and duration.
C1_SpanIsEpochToEpochPlusDuration ==
  \A p \in Procs :
    Constructed(p) =>
      /\ stepper[p].x0 = mission[p].epoch
      /\ stepper[p].x_end = FAdd(mission[p].epoch, mission[p].duration)

\* C2: with mu <= 0 or degenerate elements the conversion fails with
\* InvalidOrbitGeometry instead of returning a state vector, and propagate
\* fails with it before any integration: no integrator, no call of system.
C2_DegenerateFailsBeforeIntegration ==
  \A p \in Procs :
    ( /\ pc[p] \notin {"idle", "get_body"}
      /\ Degenerate(mission[p].orbit.kepler_elements, body[p].mu) )
    => /\ pc[p] \in {"to_state_vector", "InvalidOrbitGeometry"}
       /\ stepper[p] = NoStepper
       /\ sys_calls[p] = 0

\* C3: when the integrator fails, propagate hands its caller an explicit
\* IntegrationFailure value and no trajectory: every way out of the
\* integration other than success is that returned failure.
C3_FailureIsReturnedValue ==
  [][ \A p \in Procs :
        (pc[p] = "stepping" /\ pc'[p] \notin {"stepping", "y_out"})
        => (pc'[p] = "IntegrationFailure" /\ result'[p] = NoBuf) ]_vars

\* C4: a mission whose ode_solver is not wired to an integrator (anything
\* but DormandPrince5) makes propagate fail with UnsupportedSolver before
\* any integration; no other scheme is run in its place.
C4_UnsupportedSolverFailsFast ==
  \A p \in Procs :
    (Started(p) /\ mission[p].orbit.ode_solver # DormandPrince5)
    => /\ pc[p] \in {"get_body", "to_state_vector", "new", "UnsupportedSolver"}
       /\ stepper[p] = NoStepper
       /\ sys_calls[p] = 0

\* C5: system evaluated at a state whose position is the origin fails with
\* SingularState and writes no non-finite acceleration into dy.
C5_OriginIsSingularState ==
  ( /\ dyn_calls > 0
    /\ dyn_y[1] = Zero /\ dyn_y[2] = Zero /\ dyn_y[3] = Zero )
  => (dyn_ret = "SingularState" /\ VecFinite(dyn_dy))

\* C6: for every valid elliptical element set the returned pair satisfies
\* vis-viva, |velocity|^2 = mu * (2/|position| - 1/a), to 1e-6 relative.
C6_VisViva ==
  (conv_pc = "returned" /\ ValidElliptical(conv_elements, conv_mu))
  => WithinRel(Dot(conv_out[2], conv_out[2]),
               FMul(conv_mu,
                    FSub(FDiv(Int2R(2), FSqrt(Dot(conv_out[1], conv_out[1]))),
                         FRecip(conv_elements.semi_major_axis))),
               RelTolInv)

\* the state vector propagate starts from
InitialState(m) ==
  LET sv == to_state_vector(m.orbit.kepler_elements, get_body(m.orbit.central_body).mu)
  IN  StateNew(sv[1], sv[2])

\* C7: on success propagate returns every accepted point in time order: the
\* first sample is the initial 6-vector of to_state_vector, the last sample
\* is the state at the end of the time span, epoch + duration, and the
\* output is the whole of the integrator's output.
C7_WholeTrajectory ==
  \A p \in Procs :
    pc[p] = "returned" =>
      LET out == buffers[result[p]]
      IN  /\ Len(out) >= 1
          /\ out[1] = InitialState(mission[p])
          /\ out[Len(out)] =
               Solution(stepper[p], FAdd(mission[p].epoch, mission[p].duration))
          /\ out = buffers[stepper[p].y_out]

EnumOf(T) == {v \in EnumValues : v[1] = T}

\* C8: from_str(to_string(v)) = v for every value of the three enums, and
\* from_str of a text that is no to_string output of the enum fails.
C8_EnumRoundTrip ==
  /\ ( /\ enum_val # NoValue
       /\ enum_res.T = enum_val[1]
       /\ enum_res.input = enum_str )
     => enum_res.out = Ok(enum_val)
  /\ ( /\ enum_res.T # ""
       /\ \A v \in EnumOf(enum_res.T) : to_string(v) # enum_res.input )
     => enum_res.out = Err

C8_Witness ==
  /\ enum_val = DormandPrince853
  /\ enum_res.T = "OdeSolver"
  /\ enum_res.input = enum_str
  /\ enum_res.out = Ok(DormandPrince853)

\* e = 0, i = 0, true anomaly 0, a > 0, mu > 0
CircularEquatorialAtZero ==
  /\ conv_pc = "returned"
  /\ conv_elements.eccentricity = Zero
  /\ conv_elements.inclination = Angle0
  /\ conv_elements.true_anomaly = Angle0
  /\ FLt(Zero, conv_elements.semi_major_axis)
  /\ FLt(Zero, conv_mu)

ClosedForm ==
  /\ conv_out[1] = <<conv_elements.semi_major_axis, Zero, Zero>>
  /\ conv_out[2] =
       <<Zero, FSqrt(FDiv(conv_mu, conv_elements.semi_major_axis)), Zero>>

\* C9 as stated: with e = 0, i = 0 and true anomaly 0, whatever the node
\* longitude and the argument of periapsis, position = (a, 0, 0) and
\* velocity = (0, sqrt(mu/a), 0).
C9_Original == CircularEquatorialAtZero => ClosedForm

\* C9 as amended: with e = 0, i = 0 and true anomaly 0, and the node
\* longitude plus the argument of periapsis a whole number of turns,
\* position = (a, 0, 0) and velocity = (0, sqrt(mu/a), 0).
C9_CircularEquatorial ==
  ( /\ CircularEquatorialAtZero
    /\ AngleAdd(conv_elements.longitude_of_ascending_node,
                conv_elements.argument_of_periapsis) = Angle0 )
  => ClosedForm

C9_Witness ==
  /\ CircularEquatorialAtZero
  /\ conv_elements.longitude_of_ascending_node = Angle90
  /\ conv_elements.argument_of_periapsis = Angle270
  /\ conv_elements.semi_major_axis = Int2R(4)
  /\ conv_mu = Int2R(4)
  /\ conv_out = << <<Int2R(4), Zero, Zero>>, <<Zero, One, Zero>> >>

\* the points an integration of stepper st records from st.x on
RECURSIVE PointsFrom(_)
PointsFrom(st) ==
  <<Solution(st, st.x)>> \o
    (IF st.x = st.x_end THEN <<>> ELSE PointsFrom([st EXCEPT !.x = NextX(st)]))

\* what propagate(m) returns when it runs alone and the integration succeeds
Alone(m) ==
  PointsFrom(PropagateStepper(m, to_state_vector(m.orbit.kepler_elements,
                                                 get_body(m.orbit.central_body).mu),
                              NoBuf))

IsPrefix(s, t) == Len(s) <= Len(t) /\ \A k \in 1..Len(s) : s[k] = t[k]

\* C10: invocations running in parallel share nothing: in every interleaving
\* each invocation records and returns exactly what it returns when run
\* alone, and its returned Vec is neither another invocation's Vec nor any
\* integrator's buffer.
C10_NoInterference ==
  \A p \in Procs :
    /\ Constructed(p) => IsPrefix(buffers[stepper[p].y_out], Alone(mission[p]))
    /\ pc[p] = "returned" =>
         /\ buffers[result[p]] = Alone(mission[p])
         /\ \A q \in Procs : result[p] # stepper[q].y_out
         /\ \A q \in Procs \ {p} : result[p] # result[q]

C10_Witness ==
  /\ pc[1] = "returned"
  /\ pc[2] = "stepping"
  /\ mission[1] # mission[2]
  /\ Len(buffers[result[1]]) >= 3
  /\ Len(buffers[stepper[2].y_out]) >= 2

\* the position part of dyn_y is not the origin
NonZeroPosition == ~(dyn_y[1] = Zero /\ dyn_y[2] = Zero /\ dyn_y[3] = Zero)

\* a = -mu * rk / |r_vec|^3, stated without the root: a^2 * (|r_vec|^2)^3 =
\* mu^2 * rk^2, and a has the sign opposite to rk (mu > 0)
IsAttraction(a, rk, rsq, mu) ==
  /\ FMul(FSq(a), FMul(rsq, FMul(rsq, rsq))) = FMul(FSq(mu), FSq(rk))
  /\ Sign(a[1]) = -Sign(rk[1])

\* C11: for a state with non-zero position system leaves
\* dy = [vx, vy, vz, ax, ay, az] with a_k = -mu * r_k / |r_vec|^3, mu being the
\* gravitational parameter of the orbit's central body; a further evaluation,
\* at whatever time, leaves the same dy, and no evaluation changes the input
\* state or the Orbit.
C11_TwoBodyDerivative ==
  /\ [] ( (dyn_calls > 0 /\ NonZeroPosition) =>
            LET rsq == FAdd(FAdd(FSq(dyn_y[1]), FSq(dyn_y[2])), FSq(dyn_y[3]))
                mu == get_body(dyn_orbit.central_body).mu
            IN  /\ dyn_dy[1] = dyn_y[4]
                /\ dyn_dy[2] = dyn_y[5]
                /\ dyn_dy[3] = dyn_y[6]
                /\ \A k \in 1..3 : IsAttraction(dyn_dy[3 + k], dyn_y[k], rsq, mu) )
  /\ [][ /\ dyn_y' = dyn_y
         /\ dyn_orbit' = dyn_orbit
         /\ (dyn_calls > 0 => dyn_dy' = dyn_dy) ]_vars

C11_Witness ==
  /\ dyn_calls = 2
  /\ dyn_t = Int2R(10)
  /\ dyn_y = <<One, Int2R(2), Int2R(2), Int2R(3), Int2R(2), One>>
  /\ dyn_dy = <<Int2R(3), Int2R(2), One, <<-1, 27>>, <<-2, 27>>, <<-2, 27>>>>

\* C12: for every valid element set (mu > 0, semi-latus rectum > 0) the
\* returned position is r times the rotation of the unit radius by the node,
\* the inclination and u = argument of periapsis + true anomaly, with
\* r = a(1 - e^2)/(1 + e cos nu):
\* x = r(cos O cos u - sin O sin u cos i), y = r(cos u sin O + sin u cos i cos O),
\* z = r(sin u sin i).
C12_PositionFormula ==
  (conv_pc = "returned" /\ ~Degenerate(conv_elements, conv_mu)) =>
    LET a == conv_elements.semi_major_axis
        e == conv_elements.eccentricity
        cosi == conv_elements.inclination[1]
        sini == conv_elements.inclination[2]
        cosO == conv_elements.longitude_of_ascending_node[1]
        sinO == conv_elements.longitude_of_ascending_node[2]
        cosw == conv_elements.argument_of_periapsis[1]
        sinw == conv_elements.argument_of_periapsis[2]
        cosnu == conv_elements.true_anomaly[1]
        sinnu == conv_elements.true_anomaly[2]
        cosu == FSub(FMul(cosw, cosnu), FMul(sinw, sinnu))
        sinu == FAdd(FMul(sinw, cosnu), FMul(cosw, sinnu))
        rad == FDiv(FSub(a, FMul(a, FMul(e, e))), FAdd(One, FMul(e, cosnu)))
    IN  /\ conv_out[1][1] =
             FMul(rad, FSub(FMul(cosO, cosu), FMul(sinO, FMul(sinu, cosi))))
        /\ conv_out[1][2] =
             FMul(rad, FAdd(FMul(cosu, sinO), FMul(sinu, FMul(cosi, cosO))))
        /\ conv_out[1][3] = FMul(rad, FMul(sinu, sini))

C12_Witness ==
  /\ conv_pc = "returned"
  /\ conv_mu = One
  /\ conv_elements =
       KeplerElements(Int2R(4), <<3, 5>>, AngleP, Angle90, AngleP, Angle90)
  /\ conv_out[1] = << <<-576, 625>>, <<-256, 125>>, <<768, 625>> >>

\* two missions equal in everything but orbit.ode_solver
DifferOnlyInSolver(m1, m2) ==
  [m1 EXCEPT !.orbit.ode_solver = RungeKutta4] =
    [m2 EXCEPT !.orbit.ode_solver = RungeKutta4]

\* C13: two propagate calls whose missions differ only in orbit.ode_solver
\* use the same mu (the lookup result of the conversion is the mu of every
\* dynamics evaluation), the same initial state and dynamics, absolute
\* tolerance 1e-8, relative tolerance 1e-6 and step value 10.0; the selector
\* changes nothing else of the integration.
C13_SolverChangesNothingElse ==
  \A p \in Procs : \A q \in Procs :
    (Started(p) /\ Started(q) /\ DifferOnlyInSolver(mission[p], mission[q])) =>
      /\ (pc[p] # "get_body" /\ pc[q] # "get_body") => body[p].mu = body[q].mu
      /\ (pc[p] \notin {"get_body", "to_state_vector"}
            /\ pc[q] \notin {"get_body", "to_state_vector"})
         => state_vector[p] = state_vector[q]
      /\ Constructed(p) =>
           /\ stepper[p].rtol = <<1, 1000000>>
           /\ stepper[p].atol = <<1, 100000000>>
           /\ stepper[p].dx = Int2R(10)
           /\ get_body(stepper[p].f.central_body).mu = body[p].mu
      /\ (Constructed(p) /\ Constructed(q)) =>
           /\ [stepper[p] EXCEPT !.f.ode_solver = RungeKutta4, !.x = Zero, !.y_out = NoBuf]
                = [stepper[q] EXCEPT !.f.ode_solver = RungeKutta4, !.x = Zero, !.y_out = NoBuf]
           /\ system(stepper[p].f, stepper[p].x0, stepper[p].y0)
                = system(stepper[q].f, stepper[q].x0, stepper[q].y0)

C13_Witness ==
  /\ pc[1] = "returned"
  /\ pc[2] = "returned"
  /\ mission[1].orbit.ode_solver = RungeKutta4
  /\ mission[2].orbit.ode_solver = DormandPrince853
  /\ DifferOnlyInSolver(mission[1], mission[2])

====
